---- MODULE Spec2Model ----
(***************************************************************************)
(* Model of the confit language server (packages/confit-lsp): the per-URI  *)
(* view cache (ConfitLanguageServer.parse), the validation pass            *)
(* (ConfitLanguageServer.validate_config) and the handlers that call them. *)
(*                                                                         *)
(* A text is an abstract TOML document: the sequence of its key/value      *)
(* elements in document traversal order, or a malformed text.  A source    *)
(* range is named by the element it belongs to: the key range of path p is *)
(* [part |-> "key", path |-> p], its value range [part |-> "value", ...].  *)
(***************************************************************************)
EXTENDS Integers, Sequences, FiniteSets, TLC

VARIABLES
    seed,       \* the process's hash seed: the order in which a set of keys iterates
    workspace,  \* uri -> the text the workspace holds for the document
    _views,     \* uri -> cached [cached, h, view]          (self._views)
    published,  \* uri -> last diagnostics published to the client
    lastCall,   \* uri -> what the last handler call on the uri did
    reply       \* what the last point query (hover, inlay_hints) answered

vars == <<seed, workspace, _views, published, lastCall, reply>>

(***************************************************************************)
(* Bounds.                                                                 *)
(***************************************************************************)
\* Width of the modelled string hash, scaled down from the program's 64 bits.
HashBits == 2

(***************************************************************************)
(* Sequences and paths.                                                    *)
(***************************************************************************)
Front(s) == SubSeq(s, 1, Len(s) - 1)

Last(s) == s[Len(s)]

Range(s) == {s[i] : i \in 1..Len(s)}

RECURSIVE Flatten(_)
Flatten(ss) == IF ss = <<>> THEN <<>> ELSE Head(ss) \o Flatten(Tail(ss))

(***************************************************************************)
(* Values of a document.                                                   *)
(***************************************************************************)
Num == [kind |-> "num", s |-> "", target |-> <<>>]

Str(s) == [kind |-> "str", s |-> s, target |-> <<>>]

Table == [kind |-> "table", s |-> "", target |-> <<>>]

\* A string value in the reference syntax, naming another path.
Ref(t) == [kind |-> "ref", s |-> "", target |-> t]

Element(path, val) == [path |-> path, val |-> val]

\* isinstance(value, str): a reference is written as a string too.
IsStr(v) == v.kind \in {"str", "ref"}

(***************************************************************************)
(* The registry and the schema provider.                                   *)
(***************************************************************************)
AnyType == "Any"

\* FunctionDescription.return_type of a callable without return annotation.
NoReturnType == "<None>"

Field(name, annotation, required) ==
    [name |-> name, annotation |-> annotation, required |-> required]

\* The factories registered by confit-factories.
BuiltinFactories ==
    [n \in {"test", "add", "multiply", "url-builder"} |->
        CASE n = "test" ->
               [fields |-> <<Field("a", "float", TRUE), Field("b", "int", TRUE),
                             Field("c", "bool", TRUE)>>,
                return_type |-> "float", faulty |-> FALSE]
          [] n = "add" ->
               [fields |-> <<Field("a", "float", TRUE), Field("b", "float", TRUE)>>,
                return_type |-> "float", faulty |-> FALSE]
          [] n = "multiply" ->
               [fields |-> <<Field("a", "float", TRUE), Field("b", "float", FALSE)>>,
                return_type |-> "float", faulty |-> FALSE]
          [] n = "url-builder" ->
               [fields |-> <<Field("url", "HttpUrl", TRUE), Field("retries", "int", FALSE)>>,
                return_type |-> "str", faulty |-> FALSE]]

\* Factories registered by other plugins of the "confit" entry-point group:
\*   untyped(a, b=None)        no annotations: Any fields, no return type
\*   dynamic(a: float) -> Any
\*   broken                    a callable the schema provider fails on
PluginFactories ==
    [n \in {"untyped", "dynamic", "broken"} |->
        CASE n = "untyped" ->
               [fields |-> <<Field("a", AnyType, TRUE), Field("b", AnyType, FALSE)>>,
                return_type |-> NoReturnType, faulty |-> FALSE]
          [] n = "dynamic" ->
               [fields |-> <<Field("a", "float", TRUE)>>,
                return_type |-> AnyType, faulty |-> FALSE]
          [] n = "broken" ->
               [fields |-> <<>>, return_type |-> NoReturnType, faulty |-> TRUE]]

REGISTRY == BuiltinFactories @@ PluginFactories

\* The keys of the settings' registries.
markers == {"factory", "validator"}

\* get_pydantic_input_model: one field per parameter, required when the
\* parameter has no default, typed Any when it has no annotation; the second
\* component is the "return" hint, absent when the callable has none.
get_pydantic_input_model(func) ==
    [model_fields |-> func.fields, return_type |-> func.return_type]

\* FunctionDescription.from_function(name, REGISTRY[name]).
from_function(name) ==
    LET m == get_pydantic_input_model(REGISTRY[name])
    IN [name |-> name, model_fields |-> m.model_fields, return_type |-> m.return_type]

\* Whether the schema provider raises on the callable registered as name.
from_function_raises(name) == REGISTRY[name].faulty

(***************************************************************************)
(* ConfigurationView.                                                      *)
(***************************************************************************)
\* ConfigurationView.from_source: the parser fails on a malformed text.
from_source_raises(text) == ~text.wellformed

from_source(text) == [elements |-> text.elements]

Paths(view) == {e.path : e \in Range(view.elements)}

\* view.keys[path] and view.values[path].
KeyRange(path) == [part |-> "key", path |-> path]

ValueRange(path) == [part |-> "value", path |-> path]

\* get_value raises KeyError when no element has the path.
HasValue(view, path) == path \in Paths(view)

get_value(view, path) ==
    (CHOOSE e \in Range(view.elements) : e.path = path).val

\* The keys of get_object(path).
ObjectKeys(view, path) ==
    {Last(p) : p \in {q \in Paths(view) : Len(q) = Len(path) + 1 /\ Front(q) = path}}

\* view.factories(markers): the paths whose last segment is a marker key, in
\* document traversal order.
factories_of(view, ms) ==
    LET hit == SelectSeq(view.elements, LAMBDA e : Last(e.path) \in ms)
    IN [i \in 1..Len(hit) |-> hit[i].path]

\* The element filter of the first validate_config (src/confit_lsp), and a
\* variant of it that tests the first segment of the path, under which C7
\* fails.
IsFactoryElementByFirstSegment(element) == element.path[1] = "factory"

\* *path, key = element.path; the loop skips the element when key != "factory".
IsFactoryElement(element) == Last(element.path) = "factory"

RECURSIVE prototype_factories_loop(_)
prototype_factories_loop(elements) ==
    IF elements = <<>> THEN <<>>
    ELSE IF ~IsFactoryElement(Head(elements))
    THEN prototype_factories_loop(Tail(elements))
    ELSE <<Head(elements).path>> \o prototype_factories_loop(Tail(elements))

prototype_factories(view) == prototype_factories_loop(view.elements)

\* view.references: the paths whose value names another path, with that path.
IsReference(view, path) == HasValue(view, path) /\ get_value(view, path).kind = "ref"

ReferenceTarget(view, path) == get_value(view, path).target

(***************************************************************************)
(* Iteration over a set of keys: the order depends on the process's hash   *)
(* seed only, so it is the same for every iteration of a process.          *)
(***************************************************************************)
SetIter(S) == SelectSeq(seed, LAMBDA k : k \in S)

(***************************************************************************)
(* Diagnostics.  A message is the sequence of its fixed and formatted      *)
(* parts; the backquotes of the program's messages are written '.          *)
(***************************************************************************)
Diagnostic(range, message, severity) ==
    [range |-> range, message |-> message, severity |-> severity,
     source |-> "confit-lsp"]

MsgSingle == <<"An object can reference a single factory element at most.">>

MsgNotString(v) == <<"Element value must be a string, got ", v.kind>>

MsgNotFound(name) == <<"Element '", name, "' not found in the registry.">>

MsgNotRecognized(key, name) ==
    <<"Argument '", key, "' is not recognized by '", name, "' and will be ignored.">>

MsgMissing(key) == <<"Argument '", key, "' is missing.">>

MsgNoElement == <<"No element with this key exists.">>

MsgFactoryType(key, expected, got) ==
    <<"Argument '", key, "' is provided by a factory with incompatible type.",
      "Expected '", expected, "', got '", got, "'.">>

MsgType(key, msg) == <<"Argument '", key, "' has incompatible type.", msg>>

\* TypeAdapter(annotation).validate_python(value): the messages of the
\* ValidationError, none when the value is accepted.
validate_python(annotation, value) ==
    CASE annotation = AnyType -> <<>>
      [] annotation \in {"float", "int"} ->
            IF value.kind \in {"num", "bool"} THEN <<>>
            ELSE <<"Input should be a valid number">>
      [] annotation = "bool" ->
            IF value.kind \in {"num", "bool"} THEN <<>>
            ELSE <<"Input should be a valid boolean">>
      [] annotation = "str" ->
            IF IsStr(value) THEN <<>> ELSE <<"Input should be a valid string">>
      [] OTHER ->
            IF IsStr(value) THEN <<"Input should be a valid URL">>
            ELSE <<"URL input should be a string or URL">>

(***************************************************************************)
(* validate_config, first loop: match the markers.                         *)
(***************************************************************************)
\* roots is a set of <<object path, marker path>>, factories the sequence of
\* <<marker path, factory name>> in insertion order.
InRoots(roots, path) == \E r \in roots : r[1] = path

RootOf(roots, path) == (CHOOSE r \in roots : r[1] = path)[2]

InFactories(factories, path) == \E i \in 1..Len(factories) : factories[i][1] = path

FactoryAt(factories, path) ==
    from_function(factories[CHOOSE i \in 1..Len(factories) : factories[i][1] = path][2])

\* A variant that reports the duplicate at the marker's value, under which
\* C1 fails.
DuplicateRangeAtValue(path) == ValueRange(path)

\* Where the duplicate-binding diagnostic is anchored: view.keys[path].
DuplicateRange(path) == KeyRange(path)

MatchMarker(view, st, path) ==
    LET dup == InRoots(st.roots, Front(path))
        d1 == IF dup
              THEN Append(st.diagnostics,
                          Diagnostic(DuplicateRange(path), MsgSingle, "Error"))
              ELSE st.diagnostics
        r1 == IF dup THEN st.roots ELSE st.roots \cup {<<Front(path), path>>}
        factory_name == get_value(view, path)
    IN IF ~IsStr(factory_name)
       THEN [st EXCEPT !.roots = r1,
                       !.diagnostics = Append(d1, Diagnostic(ValueRange(path),
                                                  MsgNotString(factory_name), "Error"))]
       ELSE IF factory_name.s \notin DOMAIN REGISTRY
       THEN [st EXCEPT !.roots = r1,
                       !.diagnostics = Append(d1, Diagnostic(ValueRange(path),
                                                  MsgNotFound(factory_name.s), "Error"))]
       ELSE IF from_function_raises(factory_name.s)
       THEN [st EXCEPT !.roots = r1, !.diagnostics = d1, !.raised = TRUE]
       ELSE [st EXCEPT !.roots = r1, !.diagnostics = d1,
                       !.factories = Append(st.factories, <<path, factory_name.s>>)]

RECURSIVE MatchLoop(_, _, _)
MatchLoop(view, st, paths) ==
    IF paths = <<>> \/ st.raised THEN st
    ELSE MatchLoop(view, MatchMarker(view, st, Head(paths)), Tail(paths))

Match(view) ==
    MatchLoop(view,
              [diagnostics |-> <<>>, roots |-> {}, factories |-> <<>>, raised |-> FALSE],
              factories_of(view, markers))

(***************************************************************************)
(* validate_config, second loop: the checks of one matched marker.         *)
(***************************************************************************)
ModelKeys(factory) == {f.name : f \in Range(factory.model_fields)}

RequiredModelKeys(factory) ==
    {f.name : f \in {g \in Range(factory.model_fields) : g.required}}

FieldInfo(factory, key) == CHOOSE f \in Range(factory.model_fields) : f.name = key

RootKeys(view, root_path) == ObjectKeys(view, root_path) \ markers

ExtraDiagnostics(view, path, factory) ==
    LET root_path == Front(path)
        extra_keys == SetIter(RootKeys(view, root_path) \ ModelKeys(factory))
    IN [i \in 1..Len(extra_keys) |->
          Diagnostic(KeyRange(Append(root_path, extra_keys[i])),
                     MsgNotRecognized(extra_keys[i], factory.name), "Warning")]

MissingDiagnostics(view, path, factory) ==
    LET root_path == Front(path)
        missing_keys == SetIter(RequiredModelKeys(factory) \ RootKeys(view, root_path))
    IN [i \in 1..Len(missing_keys) |->
          Diagnostic(KeyRange(path), MsgMissing(missing_keys[i]), "Error")]

\* The comparison of a field's annotation with a sub-factory's return type.
SubFactoryDiagnostics(path, key, info, sub) ==
    IF sub.return_type = NoReturnType THEN <<>>
    ELSE IF info.annotation = AnyType THEN <<>>
    ELSE IF sub.return_type # info.annotation
    THEN << Diagnostic(KeyRange(path),
                       MsgFactoryType(key, info.annotation, sub.return_type), "Error") >>
    ELSE <<>>

\* The body of the loop over root_keys & model_keys for one key.
FieldDiagnostics(view, m, path, factory, key) ==
    LET root_path == Front(path)
        info == FieldInfo(factory, key)
        own_path == Append(root_path, key)
        value == get_value(view, own_path)
        isref == IsReference(view, own_path)
        target == ReferenceTarget(view, own_path)
        total_path == IF isref THEN target ELSE own_path
    IN IF isref /\ ~HasValue(view, target)
       THEN << Diagnostic(KeyRange(own_path), MsgNoElement, "Error") >>
       ELSE IF InRoots(m.roots, total_path)
               /\ InFactories(m.factories, RootOf(m.roots, total_path))
       THEN SubFactoryDiagnostics(path, key, info,
                                  FactoryAt(m.factories, RootOf(m.roots, total_path)))
       ELSE LET errors == validate_python(info.annotation, value)
            IN [i \in 1..Len(errors) |->
                  Diagnostic(KeyRange(total_path), MsgType(key, errors[i]), "Error")]

TypeDiagnostics(view, m, path, factory) ==
    LET common == SetIter(RootKeys(view, Front(path)) \cap ModelKeys(factory))
    IN Flatten([i \in 1..Len(common) |-> FieldDiagnostics(view, m, path, factory, common[i])])

CheckFactory(view, m, path, factory) ==
    ExtraDiagnostics(view, path, factory)
        \o MissingDiagnostics(view, path, factory)
        \o TypeDiagnostics(view, m, path, factory)

\* validate_config: the diagnostics list, or raised when an exception
\* leaves the method.
validate_config(view) ==
    LET m == Match(view)
    IN IF m.raised THEN [raised |-> TRUE, diagnostics |-> <<>>]
       ELSE [raised |-> FALSE,
             diagnostics |->
                m.diagnostics
                \o Flatten([i \in 1..Len(m.factories) |->
                              CheckFactory(view, m, m.factories[i][1],
                                           from_function(m.factories[i][2]))])]

(***************************************************************************)
(* ConfitLanguageServer.parse and the view cache.                          *)
(***************************************************************************)
\* hash(source): a function of the content alone, HashBits wide.
hash(source) ==
    (5 * Len(source.elements)
       + 3 * Cardinality({i \in 1..Len(source.elements) : IsStr(source.elements[i].val)})
       + (IF source.wellformed THEN 0 ELSE 1)) % (2 ^ HashBits)

\* uri.endswith(".toml")
EndsWithToml(uri) == uri \in {"conf.toml"}

NoView == [elements |-> <<>>]

\* An absent entry of self._views.
NoEntry == [cached |-> FALSE, h |-> 0, view |-> NoView]

\* A variant of parse that, on a miss, stores the new view and returns the
\* view the entry held before; C3 fails under it.
parse_stale(uri, source) ==
    LET source_hash == hash(source)
    IN IF _views[uri].cached /\ _views[uri].h = source_hash
       THEN [outcome |-> "view", view |-> _views[uri].view, hit |-> TRUE, views |-> _views]
       ELSE IF ~EndsWithToml(uri)
       THEN [outcome |-> "none", view |-> NoView, hit |-> FALSE, views |-> _views]
       ELSE IF from_source_raises(source)
       THEN [outcome |-> "raise", view |-> NoView, hit |-> FALSE, views |-> _views]
       ELSE [outcome |-> "view",
             view |-> IF _views[uri].cached THEN _views[uri].view ELSE from_source(source),
             hit |-> FALSE,
             views |-> [_views EXCEPT ![uri] =
                          [cached |-> TRUE, h |-> source_hash, view |-> from_source(source)]]]

\* parse: the view returned (outcome "view"), None (outcome "none") or the
\* parser's exception (outcome "raise"), with the cache it leaves.
parse(uri, source) ==
    LET source_hash == hash(source)
    IN IF _views[uri].cached /\ _views[uri].h = source_hash
       THEN [outcome |-> "view", view |-> _views[uri].view, hit |-> TRUE, views |-> _views]
       ELSE IF ~EndsWithToml(uri)
       THEN [outcome |-> "none", view |-> NoView, hit |-> FALSE, views |-> _views]
       ELSE IF from_source_raises(source)
       THEN [outcome |-> "raise", view |-> NoView, hit |-> FALSE, views |-> _views]
       ELSE [outcome |-> "view", view |-> from_source(source), hit |-> FALSE,
             views |-> [_views EXCEPT ![uri] =
                          [cached |-> TRUE, h |-> source_hash, view |-> from_source(source)]]]

(***************************************************************************)
(* The handlers.                                                           *)
(***************************************************************************)
NotCalled == [called |-> FALSE, text |-> [wellformed |-> FALSE, elements |-> <<>>],
              outcome |-> "none", hit |-> FALSE, view |-> NoView, diagnostics |-> <<>>]

\* The record of a call: the text it read, how it ended, whether parse
\* served it from the cache, the view parse returned and the list published.
Called(text, outcome, p, diagnostics) ==
    [called |-> TRUE, text |-> text, outcome |-> outcome, hit |-> p.hit,
     view |-> p.view, diagnostics |-> diagnostics]

\* The body shared by did_open and did_save: parse, validate, publish.  An
\* exception of parse or validate_config ends the handler without a publish.
Handle(uri) ==
    LET doc == workspace[uri]
        p == parse(uri, doc)
        v == validate_config(p.view)
    IN /\ _views' = p.views
       /\ IF p.outcome = "raise"
          THEN /\ published' = published
               /\ lastCall' = [lastCall EXCEPT ![uri] = Called(doc, "parse_error", p, <<>>)]
          ELSE IF p.outcome = "none"
          THEN /\ published' = published
               /\ lastCall' = [lastCall EXCEPT ![uri] = Called(doc, "no_view", p, <<>>)]
          ELSE IF v.raised
          THEN /\ published' = published
               /\ lastCall' = [lastCall EXCEPT ![uri] = Called(doc, "fault", p, <<>>)]
          ELSE /\ published' = [published EXCEPT ![uri] =
                                  [sent |-> TRUE, diagnostics |-> v.diagnostics]]
               /\ lastCall' = [lastCall EXCEPT ![uri] =
                                  Called(doc, "published", p, v.diagnostics)]
       /\ UNCHANGED <<seed, workspace, reply>>

did_open(uri) == Handle(uri)

did_save(uri) == Handle(uri)

\* An edit: the workspace replaces the document's text; no handler of the
\* server runs.
did_change(uri, text) ==
    /\ text # workspace[uri]
    /\ workspace' = [workspace EXCEPT ![uri] = text]
    /\ UNCHANGED <<seed, _views, published, lastCall, reply>>

(***************************************************************************)
(* The point queries: hover and inlay_hints.                               *)
(***************************************************************************)
\* Where an element lies in the text: the key of the i-th element in
\* document traversal order spans 4i..4i+1 and its value 4i+2..4i+3.
ElementIndex(view, path) ==
    CHOOSE i \in 1..Len(view.elements) : view.elements[i].path = path

Location(view, range) ==
    LET base == 4 * ElementIndex(view, range.path)
                   + (IF range.part = "key" THEN 0 ELSE 2)
    IN [start |-> base, end |-> base + 1]

\* A cursor position outside every key and value.
Nowhere == [part |-> "none", path |-> <<>>]

\* view.get_element_from_position(cursor): the element whose key or value
\* holds the position, None when there is none.
HasElementAt(view, position) ==
    position.part # "none" /\ position.path \in Paths(view)

get_element_from_position(view, position) == position.path

NoRange == [start |-> 0, end |-> 0]

NoReply ==
    [method |-> "none", uri |-> "", position |-> Nowhere, range |-> NoRange,
     view |-> NoView, outcome |-> "none", contents |-> <<>>, hints |-> <<>>]

Raised == [outcome |-> "raise", contents |-> <<>>, hints |-> <<>>]

NoResult == [outcome |-> "none", contents |-> <<>>, hints |-> <<>>]

\* The body of hover after parse.  The value under the cursor is looked up
\* in the registry of the element's own key: ls.registries[key] raises
\* KeyError for a key that is not a marker key.  What the registry callable
\* does with a value that is not a string is not fixed by the sources:
\* strict says whether it raises or finds nothing.
hover_of(view, position, strict) ==
    IF ~HasElementAt(view, position) THEN NoResult
    ELSE LET element == get_element_from_position(view, position)
             key == Last(element)
             factory_name == get_value(view, element)
         IN IF key \notin markers THEN Raised
            ELSE IF ~IsStr(factory_name) THEN (IF strict THEN Raised ELSE NoResult)
            ELSE IF factory_name.s \notin DOMAIN REGISTRY THEN NoResult
            ELSE IF from_function_raises(factory_name.s) THEN Raised
            ELSE LET description == from_function(factory_name.s)
                     known == {i \in 1..Len(description.model_fields) :
                                  description.model_fields[i].name = key}
                 IN IF key \in markers
                    THEN [outcome |-> "hover",
                          contents |-> <<"**Factory: ", factory_name.s, "**">>,
                          hints |-> <<>>]
                    ELSE IF known = {} THEN NoResult
                    ELSE [outcome |-> "hover",
                          contents |-> <<"**Field: ", key, "**",
                                         description.model_fields[CHOOSE i \in known : TRUE].annotation>>,
                          hints |-> <<>>]

hover(uri, position, strict) ==
    LET doc == workspace[uri]
        p == parse(uri, doc)
        r == IF p.outcome = "raise" THEN Raised
             ELSE IF p.outcome = "none" THEN NoResult
             ELSE hover_of(p.view, position, strict)
    IN /\ _views' = p.views
       /\ reply' = [method |-> "hover", uri |-> uri, position |-> position,
                    range |-> NoRange, view |-> p.view, outcome |-> r.outcome,
                    contents |-> r.contents, hints |-> <<>>]
       /\ UNCHANGED <<seed, workspace, published, lastCall>>

\* REGISTRY.get(factory_name) hashes its argument: a table is a dict, which
\* is not hashable.
Hashable(value) == value.kind # "table"

\* inlay_hints, first loop: factories[path[:-1]] is overwritten by every
\* registered marker of the object.  factories is a set of
\* <<object path, factory name>>.
InlayMatchMarker(view, st, path) ==
    LET factory_name == get_value(view, path)
    IN IF ~Hashable(factory_name) THEN [st EXCEPT !.raised = TRUE]
       ELSE IF ~IsStr(factory_name) THEN st
       ELSE IF factory_name.s \notin DOMAIN REGISTRY THEN st
       ELSE IF from_function_raises(factory_name.s) THEN [st EXCEPT !.raised = TRUE]
       ELSE [st EXCEPT !.factories =
                {f \in @ : f[1] # Front(path)} \cup {<<Front(path), factory_name.s>>}]

RECURSIVE InlayMatchLoop(_, _, _)
InlayMatchLoop(view, st, paths) ==
    IF paths = <<>> \/ st.raised THEN st
    ELSE InlayMatchLoop(view, InlayMatchMarker(view, st, Head(paths)), Tail(paths))

InlayMatch(view) ==
    InlayMatchLoop(view, [factories |-> {}, raised |-> FALSE],
                   factories_of(view, markers))

Overlaps(location, range) ==
    ~(location.start > range.end \/ range.start > location.end)

\* position=location.end, location being the range of the element's key.
HintPosition(view, path) == Location(view, KeyRange(path)).end

\* inlay_hints, second loop: the hint of one entry of view.keys, if any.
HintOf(view, factories, range, element) ==
    LET location == Location(view, KeyRange(element.path))
        path == Front(element.path)
        key == Last(element.path)
        bound == {f \in factories : f[1] = path}
    IN IF ~Overlaps(location, range) THEN <<>>
       ELSE IF key \in markers THEN <<>>
       ELSE IF bound = {} THEN <<>>
       ELSE LET factory == from_function((CHOOSE f \in bound : TRUE)[2])
            IN IF key \notin {factory.model_fields[i].name :
                                 i \in 1..Len(factory.model_fields)}
               THEN <<>>
               ELSE << [label |-> <<": ", (CHOOSE f \in Range(factory.model_fields) :
                                              f.name = key).annotation>>,
                        kind |-> "Type",
                        position |-> HintPosition(view, element.path)] >>

inlay_hints_of(view, range) ==
    LET m == InlayMatch(view)
    IN IF m.raised THEN Raised
       ELSE [outcome |-> "hints", contents |-> <<>>,
             hints |-> Flatten([i \in 1..Len(view.elements) |->
                                  HintOf(view, m.factories, range, view.elements[i])])]

inlay_hints(uri, range) ==
    LET doc == workspace[uri]
        p == parse(uri, doc)
        r == IF p.outcome = "raise" THEN Raised
             ELSE IF p.outcome = "none" THEN NoResult
             ELSE inlay_hints_of(p.view, range)
    IN /\ _views' = p.views
       /\ reply' = [method |-> "inlay_hints", uri |-> uri, position |-> Nowhere,
                    range |-> range, view |-> p.view, outcome |-> r.outcome,
                    contents |-> <<>>, hints |-> r.hints]
       /\ UNCHANGED <<seed, workspace, published, lastCall>>

(***************************************************************************)
(* The documents a run draws from.                                         *)
(***************************************************************************)
Text(elements) == [wellformed |-> TRUE, elements |-> elements]

Malformed == [wellformed |-> FALSE, elements |-> <<>>]

\* The marker keys of object c, in document order, with their values.
OneMarker == {<< <<"factory", v>> >> :
                v \in {Str("add"), Str("multiply"), Str("untyped"), Str("broken"),
                       Str("nope"), Num}}

TwoMarkers ==
    { << <<"factory", Str("add")>>, <<"validator", Str("multiply")>> >>,
      << <<"validator", Str("add")>>, <<"factory", Str("multiply")>> >>,
      << <<"factory", Str("nope")>>, <<"validator", Str("add")>> >>,
      << <<"factory", Str("add")>>, <<"validator", Str("nope")>> >>,
      << <<"factory", Num>>, <<"validator", Str("add")>> >> }

CMarkers == {<<>>} \cup OneMarker \cup TwoMarkers

\* The factory of object a, or "absent" when the document has no object a.
Targets == {"absent", "add", "url-builder", "untyped", "dynamic", "nope"}

\* Object a and how c.a is written: c.a refers to a only when a exists.
TargetAndA ==
    ({"absent"} \X {"absent", "num", "str", "ref_q", "ref_top"})
        \cup ((Targets \ {"absent"}) \X {"ref_a"})

ObjectA(tgt) ==
    IF tgt = "absent" THEN <<>>
    ELSE << Element(<<"a">>, Table), Element(<<"a", "factory">>, Str(tgt)),
            Element(<<"a", "a">>, Num) >>

FieldA(ca) ==
    CASE ca = "absent" -> <<>>
      [] ca = "num" -> << Element(<<"c", "a">>, Num) >>
      [] ca = "str" -> << Element(<<"c", "a">>, Str("text")) >>
      [] ca = "ref_a" -> << Element(<<"c", "a">>, Ref(<<"a">>)) >>
      [] ca = "ref_q" -> << Element(<<"c", "a">>, Ref(<<"q">>)) >>
      [] ca = "ref_top" -> << Element(<<"c", "a">>, Ref(<<"top">>)) >>

\* c.b: absent, a number, or a nested table with a factory of its own.
FieldB(cb) ==
    CASE cb = "absent" -> <<>>
      [] cb = "num" -> << Element(<<"c", "b">>, Num) >>
      [] OTHER -> << Element(<<"c", "b">>, Table),
                     Element(<<"c", "b", "factory">>, Str(cb)),
                     Element(<<"c", "b", "a">>, Num) >>

FieldZ(cz) == IF cz THEN << Element(<<"c", "z">>, Num) >> ELSE <<>>

ConfigText(tgt, cm, ca, cb, cz) ==
    Text(<< Element(<<"top">>, Num) >>
         \o ObjectA(tgt)
         \o << Element(<<"c">>, Table) >>
         \o [i \in 1..Len(cm) |-> Element(<<"c", cm[i][1]>>, cm[i][2])]
         \o FieldA(ca) \o FieldZ(cz) \o FieldB(cb))

\* The document of test_factories.
TestToml ==
    Text(<< Element(<<"top-level">>, Num),
            Element(<<"section">>, Table),
            Element(<<"section", "factory">>, Str("add")),
            Element(<<"section", "a">>, Num),
            Element(<<"section", "b">>, Table),
            Element(<<"section", "b", "factory">>, Str("add")),
            Element(<<"section", "b", "a">>, Num),
            Element(<<"section", "b", "b">>, Num) >>)

Texts ==
    {Malformed, TestToml}
        \cup {ConfigText(ta[1], cm, ta[2], cb, cz) :
                ta \in TargetAndA, cm \in CMarkers,
                cb \in {"absent", "num", "url-builder"}, cz \in BOOLEAN}

\* The texts of the runs that edit a document.  The second and the third
\* differ in one key and have the same hash at every width.
EditTexts ==
    { Malformed,
      ConfigText("absent", << <<"factory", Str("add")>> >>, "num", "absent", FALSE),
      ConfigText("absent", << <<"factory", Str("add")>> >>, "absent", "num", FALSE),
      ConfigText("absent", << <<"factory", Str("add")>> >>, "absent", "absent", TRUE),
      ConfigText("add", << <<"factory", Str("add")>> >>, "ref_a", "absent", TRUE) }

\* The marker keys of object c in the runs that query a document: those
\* above, two markers whose schemas type field a differently, and a marker
\* whose value is an inline table.
QueryMarkers ==
    CMarkers \cup { << <<"factory", Str("add")>>, <<"validator", Str("untyped")>> >>,
                    << <<"factory", Table>> >> }

QueryTexts ==
    {Malformed}
        \cup {ConfigText(ta[1], cm, ta[2], cb, cz) :
                ta \in {<<"absent", "num">>, <<"add", "ref_a">>},
                cm \in QueryMarkers,
                cb \in {"absent", "url-builder"}, cz \in {TRUE}}

\* The cursor positions of a text: in a key, in a value, or in neither.
Positions(text) ==
    {Nowhere} \cup {KeyRange(e.path) : e \in Range(text.elements)}
              \cup {ValueRange(e.path) : e \in Range(text.elements)}

\* The requested ranges of a text: the whole text, and for every element
\* its key alone, its value alone and the element up to the end of the text.
Ranges(text) ==
    LET n == Len(text.elements)
    IN {NoRange}
         \cup {[start |-> 4, end |-> 4 * n + 3] : i \in 1..n}
         \cup {[start |-> 4 * i, end |-> 4 * i + 1] : i \in 1..n}
         \cup {[start |-> 4 * i + 2, end |-> 4 * i + 3] : i \in 1..n}
         \cup {[start |-> 4 * i, end |-> 4 * n + 3] : i \in 1..n}

\* The orders in which the keys of a set iterate, one per hash seed.
Seeds ==
    { s \o <<"url", "retries", "c">> :
        s \in { <<"a", "b", "z">>, <<"a", "z", "b">>, <<"b", "a", "z">>,
                <<"b", "z", "a">>, <<"z", "a", "b">>, <<"z", "b", "a">> } }

(***************************************************************************)
(* Specifications.                                                         *)
(***************************************************************************)
URIs == {"conf.toml", "notes.txt"}

InitServer ==
    /\ seed \in Seeds
    /\ _views = [u \in DOMAIN workspace |-> NoEntry]
    /\ published = [u \in DOMAIN workspace |-> [sent |-> FALSE, diagnostics |-> <<>>]]
    /\ lastCall = [u \in DOMAIN workspace |-> NotCalled]
    /\ reply = NoReply

\* One document, opened and saved without edits.
Init ==
    /\ workspace \in [{"conf.toml"} -> Texts]
    /\ InitServer

DidOpen == \E uri \in DOMAIN workspace : did_open(uri)

DidSave == \E uri \in DOMAIN workspace : did_save(uri)

DidChange == \E uri \in DOMAIN workspace : \E text \in EditTexts : did_change(uri, text)

Next == DidOpen \/ DidSave

Spec == Init /\ [][Next]_vars

\* Several documents, edited between the calls.
InitCache ==
    /\ workspace \in [URIs -> EditTexts]
    /\ InitServer

NextCache == DidOpen \/ DidSave \/ DidChange

SpecCache == InitCache /\ [][NextCache]_vars

\* One document, queried.
InitQuery ==
    /\ \E text \in QueryTexts :
          workspace = [u \in URIs |-> IF u = "conf.toml" THEN text ELSE Malformed]
    /\ seed = <<"a", "b", "z", "url", "retries", "c">>
    /\ _views = [u \in DOMAIN workspace |-> NoEntry]
    /\ published = [u \in DOMAIN workspace |-> [sent |-> FALSE, diagnostics |-> <<>>]]
    /\ lastCall = [u \in DOMAIN workspace |-> NotCalled]
    /\ reply = NoReply

Hover ==
    \E uri \in DOMAIN workspace : \E position \in Positions(workspace[uri]) :
        \E strict \in BOOLEAN : hover(uri, position, strict)

InlayHints ==
    \E uri \in DOMAIN workspace : \E range \in Ranges(workspace[uri]) :
        inlay_hints(uri, range)

NextQuery == Hover \/ InlayHints

SpecQuery == InitQuery /\ [][NextQuery]_vars

(***************************************************************************)
(* What the properties speak about: the last call on the document, the     *)
(* view parse returned to it and the list validate_config returned.        *)
(***************************************************************************)
Doc == "conf.toml"

Returned == lastCall[Doc].outcome = "published"

Diags == lastCall[Doc].diagnostics

View == lastCall[Doc].view

\* The indices of the diagnostics that satisfy P.
Where(P(_)) == {i \in 1..Len(Diags) : P(Diags[i])}

\* The objects of the view: the paths that hold a key.
Objects(view) == {Front(p) : p \in Paths(view)}

\* The marker paths of an object, in document traversal order.
MarkersOf(view, obj) ==
    SelectSeq(factories_of(view, markers), LAMBDA p : Front(p) = obj)

\* A marker value that names a registered factory.
IsRegistered(v) == IsStr(v) /\ v.s \in DOMAIN REGISTRY

IsDuplicate(d) == d.message = MsgSingle

IsBadMarker(d) ==
    \/ d.message[1] = "Element value must be a string, got "
    \/ d.message[1] = "Element '"

IsStructural(d) == IsDuplicate(d) \/ IsBadMarker(d)

\* A diagnostic anchored at a key or value of the object.
AnchoredIn(d, obj) == Front(d.range.path) = obj

TwoMarkerObjects == {obj \in Objects(View) : Len(MarkersOf(View, obj)) = 2}

(***************************************************************************)
(* C1.  An object with two marker keys: the structural errors reported.    *)
(***************************************************************************)
\* C1 as stated: for every object that declares two marker keys, the list
\* holds exactly one structural error of the object (duplicate binding,
\* unknown factory name or non-string marker), anchored at the key range of
\* the marker that comes second in document traversal order.
C1_ExactlyOneStructural ==
    Returned =>
        \A obj \in TwoMarkerObjects :
            LET S == Where(LAMBDA d : IsStructural(d) /\ AnchoredIn(d, obj))
            IN /\ Cardinality(S) = 1
               /\ \A i \in S : Diags[i].range = KeyRange(MarkersOf(View, obj)[2])

\* C1 amended: for every object that declares two marker keys, the list
\* holds exactly one duplicate-binding error of the object, an Error anchored
\* at the key range of the marker that comes second in document traversal
\* order; besides it, each of the two markers whose value is not the name of
\* a registered factory has exactly one structural error, anchored at the
\* value range of that marker, and the object has no other structural error.
C1_OneDuplicateAtSecondMarker ==
    Returned =>
        \A obj \in TwoMarkerObjects :
            LET ms == MarkersOf(View, obj)
                D == Where(LAMBDA d : IsDuplicate(d) /\ AnchoredIn(d, obj))
                B == Where(LAMBDA d : IsBadMarker(d) /\ AnchoredIn(d, obj))
            IN /\ Cardinality(D) = 1
               /\ \A i \in D : /\ Diags[i].range = KeyRange(ms[2])
                               /\ Diags[i].severity = "Error"
               /\ \A k \in 1..2 :
                     Cardinality({i \in B : Diags[i].range = ValueRange(ms[k])})
                        = IF IsRegistered(get_value(View, ms[k])) THEN 0 ELSE 1
               /\ \A i \in B : \E k \in 1..2 : Diags[i].range = ValueRange(ms[k])

\* A list was returned for a document whose object has two markers, the
\* first of them naming no registered factory.
C1_Witness ==
    /\ Returned
    /\ \E obj \in TwoMarkerObjects :
          /\ ~IsRegistered(get_value(View, MarkersOf(View, obj)[1]))
          /\ Cardinality(Where(LAMBDA d : IsStructural(d) /\ AnchoredIn(d, obj))) = 2

(***************************************************************************)
(* The binding of an object, as the specification defines it: the first    *)
(* marker in document traversal order, when it names a registered factory. *)
(***************************************************************************)
BoundObjects ==
    {obj \in Objects(View) :
        /\ Len(MarkersOf(View, obj)) >= 1
        /\ IsRegistered(get_value(View, MarkersOf(View, obj)[1]))}

MarkerOf(obj) == MarkersOf(View, obj)[1]

SchemaOf(obj) == from_function(get_value(View, MarkerOf(obj)).s)

IsMissing(d, key) == d.message = MsgMissing(key)

(***************************************************************************)
(* C2.  Missing required fields.                                           *)
(***************************************************************************)
\* What C2 states of the objects in Objs.
OneMissingPerField(Objs) ==
    \A obj \in Objs : \A f \in Range(SchemaOf(obj).model_fields) :
        LET S == Where(LAMBDA d : IsMissing(d, f.name) /\ AnchoredIn(d, obj))
        IN IF f.required /\ f.name \notin ObjectKeys(View, obj)
           THEN /\ Cardinality(S) = 1
                /\ \A i \in S : /\ Diags[i].range = KeyRange(MarkerOf(obj))
                                /\ Diags[i].severity = "Error"
           ELSE S = {}

\* C2 as stated: for every bound object and every field of its schema, the
\* list holds exactly one error "Argument <field> is missing." of that
\* object and field, anchored at the key range of the object's marker, when
\* the field is required and absent from the object, and none when the
\* field is present or has a default.
C2_OneMissingPerField == Returned => OneMissingPerField(BoundObjects)

\* The same for the bound objects that declare one marker key only.
C2_OneMarkerObjects ==
    Returned =>
        OneMissingPerField({obj \in BoundObjects : Len(MarkersOf(View, obj)) = 1})

(***************************************************************************)
(* C3.  Idempotence of validate over the view cache.                       *)
(***************************************************************************)
\* C3: a handler call on a document whose text is the text of the previous
\* call on it, which published a list, publishes the same list: equal
\* element by element, in the same order.
C3_Idempotent ==
    [][\A uri \in DOMAIN workspace :
          (/\ workspace' = workspace
           /\ lastCall[uri].outcome = "published"
           /\ lastCall[uri].text = workspace[uri])
          => /\ lastCall'[uri].outcome = "published"
             /\ lastCall'[uri].diagnostics = lastCall[uri].diagnostics
             /\ published'[uri].diagnostics = published[uri].diagnostics]_vars

\* A call served from the cache published a list of three diagnostics, two
\* of them from the iteration over a set of two missing keys.
C3_Witness ==
    /\ Returned
    /\ lastCall[Doc].hit
    /\ lastCall[Doc].text = workspace[Doc]
    /\ Cardinality(Where(LAMBDA d : d.message[3] = "' is missing.")) = 2

(***************************************************************************)
(* Fields provided by another binding.                                     *)
(***************************************************************************)
\* The fields the object holds and its schema declares.
CommonFields(obj) == ObjectKeys(View, obj) \cap ModelKeys(SchemaOf(obj))

\* The path a field stands for: the target of a reference that resolves,
\* the field's own path otherwise.
ResolvedPath(obj, key) ==
    LET own == Append(obj, key)
    IN IF IsReference(View, own) /\ HasValue(View, ReferenceTarget(View, own))
       THEN ReferenceTarget(View, own)
       ELSE own

Unresolved(obj, key) ==
    /\ IsReference(View, Append(obj, key))
    /\ ~HasValue(View, ReferenceTarget(View, Append(obj, key)))

\* The field's target is the object path of another binding.
ProvidedByBinding(obj, key) ==
    /\ ~Unresolved(obj, key)
    /\ ResolvedPath(obj, key) \in BoundObjects

DeclaredType(obj, key) == FieldInfo(SchemaOf(obj), key).annotation

ProvidedType(obj, key) == SchemaOf(ResolvedPath(obj, key)).return_type

\* A diagnostic about the field key of the object.
IsAbout(d, obj, key) ==
    /\ d.message[1] = "Argument '"
    /\ d.message[2] = key
    /\ (AnchoredIn(d, obj) \/ d.range.path = ResolvedPath(obj, key))

\* A type diagnostic about the field key of the object.
IsTypeDiagnostic(d, obj, key) ==
    /\ IsAbout(d, obj, key)
    /\ d.message[3] \in {"' is provided by a factory with incompatible type.",
                         "' has incompatible type."}

(***************************************************************************)
(* C4.  A field provided by another binding: nominal type equality.        *)
(***************************************************************************)
\* What C4 states of the objects in Objs.
ComposedTypesChecked(Objs) ==
    \A obj \in Objs : \A key \in CommonFields(obj) :
        (/\ ProvidedByBinding(obj, key)
         /\ ProvidedType(obj, key) \notin {NoReturnType, AnyType}
         /\ DeclaredType(obj, key) # AnyType)
        => LET S == Where(LAMBDA d : IsAbout(d, obj, key))
           IN IF DeclaredType(obj, key) = ProvidedType(obj, key)
              THEN S = {}
              ELSE /\ Cardinality(S) = 1
                   /\ \A i \in S :
                         /\ Diags[i].severity = "Error"
                         /\ Diags[i].message =
                               MsgFactoryType(key, DeclaredType(obj, key),
                                              ProvidedType(obj, key))
                         /\ Diags[i].range = KeyRange(MarkerOf(obj))
                         /\ Diags[i].range.path # Append(obj, key)

\* C4 as stated: for every field present in a bound object and its schema
\* whose (resolved) value is the object path of another binding with a known
\* return type, neither type being Any, the list holds no diagnostic for the
\* field when the declared type equals the return type, and exactly one
\* error naming both types, anchored at the key range of the referencing
\* object's marker and not at the field's element, when they differ.
C4_ComposedTypesChecked == Returned => ComposedTypesChecked(BoundObjects)

\* The same for the bound objects that declare one marker key only.
C4_OneMarkerObjects ==
    Returned =>
        ComposedTypesChecked({obj \in BoundObjects : Len(MarkersOf(View, obj)) = 1})

(***************************************************************************)
(* C5.  A field provided by another binding: the Any wildcard.             *)
(***************************************************************************)
\* C5 as stated: for every field whose (resolved) target is the object path
\* of another binding, the list holds no type diagnostic for the field when
\* the field's declared type is Any, or the binding's return type is Any,
\* or the binding's return type is unknown.
C5_WildcardsSkipped ==
    Returned =>
        \A obj \in BoundObjects : \A key \in CommonFields(obj) :
            (/\ ProvidedByBinding(obj, key)
             /\ \/ DeclaredType(obj, key) = AnyType
                \/ ProvidedType(obj, key) = AnyType
                \/ ProvidedType(obj, key) = NoReturnType)
            => Where(LAMBDA d : IsTypeDiagnostic(d, obj, key)) = {}

\* The same without the case of a binding that returns Any.
C5_DeclaredAnyOrUnknownReturn ==
    Returned =>
        \A obj \in BoundObjects : \A key \in CommonFields(obj) :
            (/\ ProvidedByBinding(obj, key)
             /\ \/ DeclaredType(obj, key) = AnyType
                \/ ProvidedType(obj, key) = NoReturnType)
            => Where(LAMBDA d : IsTypeDiagnostic(d, obj, key)) = {}

(***************************************************************************)
(* C6.  Unknown keys of a bound object.                                    *)
(***************************************************************************)
IsPrefix(p, q) == Len(p) <= Len(q) /\ SubSeq(q, 1, Len(p)) = p

\* The view of the document without the element at path and what it holds.
ViewWithout(view, path) ==
    [elements |-> SelectSeq(view.elements, LAMBDA e : ~IsPrefix(path, e.path))]

UnknownKeys(obj) == (ObjectKeys(View, obj) \ markers) \ ModelKeys(SchemaOf(obj))

\* A diagnostic for the key of the object: at its element or naming it.
IsForKey(d, obj, key) ==
    \/ d.range.path = Append(obj, key)
    \/ /\ AnchoredIn(d, obj)
       /\ d.message[1] = "Argument '"
       /\ d.message[2] = key

\* What C6 states of the objects in Objs.
UnknownKeysWarned(Objs) ==
    \A obj \in Objs : \A key \in UnknownKeys(obj) :
        LET S == Where(LAMBDA d : IsForKey(d, obj, key))
        IN /\ Cardinality(S) = 1
           /\ \A i \in S : Diags[i].severity = "Warning"
           /\ SelectSeq(Diags, LAMBDA d : ~IsForKey(d, obj, key))
                 = validate_config(ViewWithout(View, Append(obj, key))).diagnostics

\* C6 as stated: for every bound object and every key of it that is neither
\* a marker key nor a field of the bound schema, the list holds exactly one
\* diagnostic for that key, a warning, and the other diagnostics are those
\* of the document without the key, in the same order.
C6_UnknownKeysWarned == Returned => UnknownKeysWarned(BoundObjects)

\* The same for the bound objects that declare one marker key only.
C6_OneMarkerObjects ==
    Returned =>
        UnknownKeysWarned({obj \in BoundObjects : Len(MarkersOf(View, obj)) = 1})

(***************************************************************************)
(* C7.  The factory enumeration of a view.                                 *)
(***************************************************************************)
\* The paths of the elements whose last segment is one of the keys ms.
MarkerPaths(view, ms) == {p \in Paths(view) : Last(p) \in ms}

C8_CacheTransparent ==
    \A uri \in DOMAIN workspace :
        (lastCall[uri].called /\ EndsWithToml(uri)) =>
            IF from_source_raises(lastCall[uri].text)
            THEN lastCall[uri].outcome = "parse_error"
            ELSE /\ lastCall[uri].outcome \in {"published", "fault"}
                 /\ lastCall[uri].view = from_source(lastCall[uri].text)

\* The same for the calls that parse does not serve from the cache.
C8_MissesBuildFromText ==
    \A uri \in DOMAIN workspace :
        (lastCall[uri].called /\ EndsWithToml(uri) /\ ~lastCall[uri].hit) =>
            IF from_source_raises(lastCall[uri].text)
            THEN lastCall[uri].outcome = "parse_error"
            ELSE /\ lastCall[uri].outcome \in {"published", "fault"}
                 /\ lastCall[uri].view = from_source(lastCall[uri].text)

(***************************************************************************)
(* C9.  The order of the list.                                             *)
(***************************************************************************)
\* The position of an element in document traversal order.
Pos(view, path) == CHOOSE i \in 1..Len(view.elements) : view.elements[i].path = path

\* C9 as stated: of two diagnostics of one list, the one about the element
\* that comes earlier in document traversal order is earlier in the list.
C9_TraversalOrder ==
    Returned =>
        \A i, j \in 1..Len(Diags) :
            i < j => Pos(View, Diags[i].range.path) <= Pos(View, Diags[j].range.path)

(***************************************************************************)
(* C10.  Faults of the schema provider.                                    *)
(***************************************************************************)
\* The objects with a marker naming a factory the schema provider fails on.
FaultyObjects(view) ==
    {Front(p) : p \in {q \in MarkerPaths(view, markers) :
                          /\ IsRegistered(get_value(view, q))
                          /\ from_function_raises(get_value(view, q).s)}}

\* C10 as stated: validate returns a list for every view; an object whose
\* factory the schema provider fails on has one structural error in it, and
\* the other diagnostics are those of the document without that object.
C10_NoFaultEscapes ==
    lastCall[Doc].outcome \in {"published", "fault"} =>
        /\ Returned
        /\ \A obj \in FaultyObjects(View) :
              /\ Cardinality(Where(LAMBDA d : IsStructural(d) /\ AnchoredIn(d, obj))) = 1
              /\ SelectSeq(Diags, LAMBDA d : ~IsPrefix(obj, d.range.path))
                    = validate_config(ViewWithout(View, obj)).diagnostics

(***************************************************************************)
(* C13.  The binding of an object with several markers.                    *)
(***************************************************************************)
\* The entries of factories that belong to the first marker of their object.
CanonicalFactories(view, m) ==
    SelectSeq(m.factories, LAMBDA f : f[1] = MarkersOf(view, Front(f[1]))[1])

\* The list validate_config returns when the checks of the second loop run
\* for the first marker of every object only.
FirstWinsDiagnostics(view) ==
    LET m == Match(view)
        canonical == CanonicalFactories(view, m)
    IN m.diagnostics
          \o Flatten([i \in 1..Len(canonical) |->
                        CheckFactory(view, m, canonical[i][1],
                                     from_function(canonical[i][2]))])

\* C13 as stated: after the first loop every object has one binding at most,
\* that of its first marker; the field checks of an object with two
\* registered markers run once, against the first marker's schema, and the
\* second marker contributes its duplicate-binding diagnostic only.
C13_FirstWins ==
    Returned =>
        LET m == Match(View)
        IN /\ \A obj \in Objects(View) :
                 Cardinality({i \in 1..Len(m.factories) : Front(m.factories[i][1]) = obj}) <= 1
           /\ CanonicalFactories(View, m) = m.factories
           /\ Diags = FirstWinsDiagnostics(View)
           /\ \A obj \in TwoMarkerObjects :
                 (\A i \in 1..2 : IsRegistered(get_value(View, MarkersOf(View, obj)[i])))
                 => SelectSeq(Diags, LAMBDA d : d.range.path = MarkersOf(View, obj)[2])
                       = << Diagnostic(KeyRange(MarkersOf(View, obj)[2]), MsgSingle, "Error") >>

(***************************************************************************)
(* C14.  Markers that name no registered factory.                          *)
(***************************************************************************)
\* The markers of the object whose value is not a string or not registered.
BadMarkers(obj) ==
    {p \in Range(MarkersOf(View, obj)) : ~IsRegistered(get_value(View, p))}

\* A diagnostic of the second loop anchored in the object.
IsFieldLevel(d, obj) == AnchoredIn(d, obj) /\ d.message[1] = "Argument '"

\* The view of the document without the markers of the object.
ViewWithoutMarkers(view, obj) ==
    [elements |-> SelectSeq(view.elements,
                            LAMBDA e : ~(Front(e.path) = obj /\ Last(e.path) \in markers))]

\* What C14 states of the objects in Objs.
BadMarkerExcluded(Objs) ==
    \A obj \in Objs :
        BadMarkers(obj) # {} =>
            /\ \A p \in BadMarkers(obj) :
                  /\ Cardinality(Where(LAMBDA d : d.range = ValueRange(p))) = 1
                  /\ \A i \in Where(LAMBDA d : d.range = ValueRange(p)) :
                        IsBadMarker(Diags[i]) /\ Diags[i].severity = "Error"
            /\ Where(LAMBDA d : IsFieldLevel(d, obj)) = {}
            /\ SelectSeq(Diags, LAMBDA d : ~AnchoredIn(d, obj))
                  = SelectSeq(validate_config(ViewWithoutMarkers(View, obj)).diagnostics,
                              LAMBDA d : ~AnchoredIn(d, obj))

\* C14 as stated: for every object with a marker whose value is not a string
\* or not a registered name, the list holds one error at that marker's value
\* range and no field-level diagnostic of the object, and the diagnostics of
\* the nested and of the other objects are those of the document without the
\* object's markers.
C14_BadMarkerExcluded == Returned => BadMarkerExcluded(Objects(View))

\* The same for the objects that declare one marker key only.
C14_OneMarkerObjects ==
    Returned =>
        BadMarkerExcluded({obj \in Objects(View) : Len(MarkersOf(View, obj)) = 1})

(***************************************************************************)
(* C15.  References that do not resolve.                                   *)
(***************************************************************************)
\* The view of the document with the value at path replaced.
ViewWithValue(view, path, val) ==
    [elements |-> [i \in 1..Len(view.elements) |->
                     IF view.elements[i].path = path THEN Element(path, val)
                     ELSE view.elements[i]]]

IsNoElement(d, obj, key) ==
    d.message = MsgNoElement /\ d.range.path = Append(obj, key)

\* What C15 states of the objects in Objs.
UnresolvedReported(Objs) ==
    \A obj \in Objs : \A key \in CommonFields(obj) :
        Unresolved(obj, key) =>
            LET S == Where(LAMBDA d : IsNoElement(d, obj, key))
            IN /\ Cardinality(S) = 1
               /\ \A i \in S : Diags[i].range = KeyRange(Append(obj, key))
                                  /\ Diags[i].severity = "Error"
               /\ Where(LAMBDA d : IsTypeDiagnostic(d, obj, key)) = {}
               /\ DeclaredType(obj, key) \in {"float", AnyType} =>
                     SelectSeq(Diags, LAMBDA d : ~IsNoElement(d, obj, key))
                        = validate_config(ViewWithValue(View, Append(obj, key), Num)).diagnostics

\* C15 as stated: for every schema field of a bound object whose value is a
\* reference to a path the document does not hold, the list holds exactly
\* one error 'No element with this key exists.' at the field's element and
\* no type diagnostic for the field, and the rest of the list is that of the
\* document with a valid number in the field.
C15_UnresolvedReported == Returned => UnresolvedReported(BoundObjects)

\* The same for the bound objects that declare one marker key only.
C15_OneMarkerObjects ==
    Returned =>
        UnresolvedReported({obj \in BoundObjects : Len(MarkersOf(View, obj)) = 1})

(***************************************************************************)
(* C16.  Type violations of a field's value.                               *)
(***************************************************************************)
IsValueTypeDiagnostic(d, obj, key) ==
    IsAbout(d, obj, key) /\ d.message[3] = "' has incompatible type."

\* What C16 states of the fields of the objects in Objs that satisfy P.
ViolationsAtField(Objs, P(_, _)) ==
    \A obj \in Objs : \A key \in CommonFields(obj) :
        (/\ ~Unresolved(obj, key)
         /\ ~InRoots(Match(View).roots, ResolvedPath(obj, key))
         /\ P(obj, key))
        => LET errors == validate_python(DeclaredType(obj, key),
                                         get_value(View, Append(obj, key)))
               S == Where(LAMBDA d : IsValueTypeDiagnostic(d, obj, key))
           IN /\ Cardinality(S) = Len(errors)
              /\ \A n \in 1..Len(errors) :
                    Cardinality({i \in S : Diags[i].message = MsgType(key, errors[n])}) = 1
              /\ \A i \in S : /\ Diags[i].range = KeyRange(Append(obj, key))
                              /\ Diags[i].severity = "Error"

AnyField(obj, key) == TRUE

\* C16 as stated: for every schema field of a bound object whose (resolved)
\* target is not the object path of a binding, the list holds exactly one
\* error for each violation the type check of the field's value reports,
\* anchored at the key range of the field's own element, for a literal and
\* for a reference that resolves.
C16_ViolationsAtField == Returned => ViolationsAtField(BoundObjects, AnyField)

LiteralField(obj, key) == ~IsReference(View, Append(obj, key))

\* The same for the fields that hold a literal, in the bound objects that
\* declare one marker key only.
C16_LiteralFields ==
    Returned =>
        ViolationsAtField({obj \in BoundObjects : Len(MarkersOf(View, obj)) = 1},
                          LiteralField)

(***************************************************************************)
(* C17.  The entries of the view cache.                                    *)
(***************************************************************************)
\* What C17 states of a handler call on uri that satisfies P: a call in
\* which parse returned a view leaves the entry of the text's hash and the
\* view built from the text; a call in which parse failed or returned None
\* leaves the cache as it was and has no view; only .toml URIs have entries.
CacheStep(P(_)) ==
    \A uri \in DOMAIN workspace :
        (lastCall'[uri] # lastCall[uri] /\ P(uri)) =>
            /\ IF lastCall'[uri].outcome \in {"published", "fault"}
               THEN /\ EndsWithToml(uri)
                    /\ ~from_source_raises(lastCall'[uri].text)
                    /\ _views'[uri] = [cached |-> TRUE,
                                       h |-> hash(lastCall'[uri].text),
                                       view |-> from_source(lastCall'[uri].text)]
               ELSE /\ _views' = _views
                    /\ lastCall'[uri].view = NoView
            /\ \A u \in DOMAIN workspace : _views'[u].cached => EndsWithToml(u)

AnyCall(uri) == TRUE

\* C17 as stated, as a property of every step.
C17_CacheEntries == [][CacheStep(AnyCall)]_vars

\* A call that parse serves from the cache reads the text the entry was
\* built from.
SameTextOnHit(uri) ==
    lastCall'[uri].hit =>
        /\ ~from_source_raises(lastCall'[uri].text)
        /\ _views[uri].view = from_source(lastCall'[uri].text)

\* The same for the calls in which the cache is hit by the cached text only.
C17_HitsOnCachedText == [][CacheStep(SameTextOnHit)]_vars


(***************************************************************************)
(* The point queries: the view a query was answered from and the bindings  *)
(* of its objects.                                                         *)
(***************************************************************************)
\* The last query was answered from a view of the document.
Answered(method) ==
    /\ reply.method = method
    /\ reply.uri = Doc
    /\ workspace[Doc].wellformed

\* The objects of a view whose first marker names a registered factory, and
\* the schema of that factory.
BoundObjectsOf(view) ==
    {obj \in Objects(view) :
        /\ Len(MarkersOf(view, obj)) >= 1
        /\ IsRegistered(get_value(view, MarkersOf(view, obj)[1]))}

BindingOf(view, obj) == get_value(view, MarkersOf(view, obj)[1]).s

\* The elements that are a field of the schema bound to their object.
KnownFields(view) ==
    {e \in Range(view.elements) :
        /\ Last(e.path) \notin markers
        /\ Front(e.path) \in BoundObjectsOf(view)
        /\ ~from_function_raises(BindingOf(view, Front(e.path)))
        /\ Last(e.path) \in ModelKeys(from_function(BindingOf(view, Front(e.path))))}

DeclaredTypeOf(view, e) ==
    FieldInfo(from_function(BindingOf(view, Front(e.path))), Last(e.path)).annotation

(***************************************************************************)
(* C11.  hover.                                                            *)
(***************************************************************************)
\* C11 as stated: hover at a marker key that names a registered factory
\* answers with the factory's documentation; at a known field of a matched
\* binding, with the field's declared type; at every other position it
\* answers with no result and does not raise.
C11_HoverAnswers ==
    Answered("hover") =>
        LET view == reply.view
            here == HasElementAt(view, reply.position)
            path == reply.position.path
        IN IF here /\ Last(path) \in markers /\ IsRegistered(get_value(view, path))
           THEN /\ reply.outcome = "hover"
                /\ reply.contents = <<"**Factory: ", get_value(view, path).s, "**">>
           ELSE IF here /\ (\E e \in KnownFields(view) : e.path = path)
           THEN /\ reply.outcome = "hover"
                /\ reply.contents
                      = <<"**Field: ", Last(path), "**",
                          DeclaredTypeOf(view, CHOOSE e \in KnownFields(view) : e.path = path)>>
           ELSE reply.outcome = "none"

\* The same for the positions in a marker element whose value is a string
\* and is not a factory the schema provider fails on, and outside every
\* element.
C11_MarkerPositions ==
    Answered("hover") =>
        LET view == reply.view
            here == HasElementAt(view, reply.position)
            path == reply.position.path
        IN IF ~here THEN reply.outcome = "none"
           ELSE (Last(path) \in markers /\ IsStr(get_value(view, path))) =>
                   IF ~IsRegistered(get_value(view, path)) THEN reply.outcome = "none"
                   ELSE from_function_raises(get_value(view, path).s)
                           \/ /\ reply.outcome = "hover"
                              /\ reply.contents
                                    = <<"**Factory: ", get_value(view, path).s, "**">>

(***************************************************************************)
(* C12.  inlay_hints.                                                      *)
(***************************************************************************)
\* The element, from where its key starts to where its value ends, overlaps
\* the range.
ElementOverlaps(view, e, range) ==
    Overlaps([start |-> Location(view, KeyRange(e.path)).start,
              end |-> Location(view, ValueRange(e.path)).end], range)

\* What C12 states with the hint of an element positioned by At.
HintsPerField(At(_, _)) ==
    (Answered("inlay_hints") /\ reply.outcome = "hints") =>
        LET view == reply.view
            E == {e \in KnownFields(view) : ElementOverlaps(view, e, reply.range)}
        IN /\ Len(reply.hints) = Cardinality(E)
           /\ \A e \in E :
                 Cardinality({i \in 1..Len(reply.hints) :
                                 reply.hints[i].position = At(view, e)}) = 1

ValueEnd(view, e) == Location(view, ValueRange(e.path)).end

KeyEnd(view, e) == Location(view, KeyRange(e.path)).end

\* C12 as stated: the answer holds exactly one hint for every non-marker
\* element that overlaps the requested range and is a field of the schema
\* bound to its object, positioned where the element's value ends.
C12_HintsAtValueEnd == HintsPerField(ValueEnd)

(***************************************************************************)
(* C18.  validate_config and inlay_hints on the binding of an object.      *)
(***************************************************************************)
\* What C18 states of the views in which every object satisfies P.
SameBindings(P(_, _)) ==
    (/\ Answered("inlay_hints")
     /\ ~validate_config(reply.view).raised
     /\ \A obj \in Objects(reply.view) : P(reply.view, obj)) =>
        /\ reply.outcome = "hints"
        /\ InlayMatch(reply.view).factories
              = {<<obj, BindingOf(reply.view, obj)>> : obj \in BoundObjectsOf(reply.view)}

AnyObject(view, obj) == TRUE

\* C18 as stated: for every document validate_config accepts, inlay_hints
\* answers, and the schema it labels an object's fields with is that of the
\* object's first marker in document order.
C18_SameBindings == SameBindings(AnyObject)

OneHashableMarker(view, obj) ==
    /\ Len(MarkersOf(view, obj)) <= 1
    /\ \A i \in 1..Len(MarkersOf(view, obj)) : Hashable(get_value(view, MarkersOf(view, obj)[i]))

\* The same for the documents whose objects have one marker at most, with a
\* value that is not a table.
C18_OneMarkerObjects == SameBindings(OneHashableMarker)


====
